---- MODULE Spec2Model ----
(***************************************************************************)
(* Model of the request-deduplicating room-config cache of                 *)
(* src/src/question1.ts: fetchRoomConfig, the two reactions of its promise *)
(* chain and clearCache, under JavaScript's single-threaded cooperative    *)
(* scheduler: a call and a promise reaction each run to completion, and    *)
(* they interleave in any order (specifications Spec and SpecStats).       *)
(*                                                                         *)
(* Model of the achievements pager of src/src/question2.ts: the handlers   *)
(* that readAchievementsPage puts on a stream, and the async generator     *)
(* readAchievementsPageGenerator, both reading the same stream content     *)
(* (specification SpecPager).  A stream emits 'data' any number of times   *)
(* and then 'end' or 'error', and nothing after either.  SpecPagerArgs      *)
(* starts before the two calls that make the pagers, SpecCreatedStream has  *)
(* them read a stream made by createAchievementsStream, SpecRaising gives    *)
(* readAchievementsPage callbacks that may raise.                           *)
(*                                                                         *)
(* Model of the weighted wheel of src/src/question3.ts: getWheelSpinner,    *)
(* getAdvancedWheelSpinner and the calls of the spinner they return         *)
(* (specification SpecWheel).                                               *)
(***************************************************************************)
EXTENDS Integers, Sequences, FiniteSets, TLC

\* ------------------------------------------------------------------ bounds

\* readConfigFromDb is invoked at most MaxFetches times in a run.
MaxFetches == 3

\* The stream hands at most MaxChunks chunks to a pager.
MaxChunks == 4

\* The longest list of achievements given to createAchievementsStream.
MaxAchievements == 25

\* The longest wheel given to getWheelSpinner or getAdvancedWheelSpinner.
MaxWedges == 3

\* ------------------------------------------------------------------ values

\* The room ids the callers ask for.
RoomIds == {1, 2}

\* A JavaScript number handed to fetchRoomConfig.  A finite number is held as
\* twice its value, so that the halves (1.5) are representable.
Finite(twice) == [kind |-> "finite", twice |-> twice]
NaN == [kind |-> "NaN", twice |-> 0]
PosInfinity == [kind |-> "Infinity", twice |-> 0]
NegInfinity == [kind |-> "-Infinity", twice |-> 0]

\* The arguments the callers pass: every room id, and the invalid inputs of
\* the validation test: 0, -1, 1.5, NaN, Infinity, -Infinity.
RoomIdArgs ==
    {Finite(2 * k) : k \in RoomIds}
        \cup {Finite(0), Finite(-2), Finite(3), NaN, PosInfinity, NegInfinity}

\* The integer a finite argument is used as when it is a Map key.
RoomIdOf(x) == x.twice \div 2

\* Every key an argument can denote; the maps are total over them.
MapKeys == {RoomIdOf(x) : x \in {y \in RoomIdArgs : y.kind = "finite"}}

\* RoomConfig = unknown: a database read resolves with undefined or with a
\* config object; the f-th read's object is Config(f).
Undefined == [kind |-> "undefined", id |-> 0]
Config(f) == [kind |-> "config", id |-> f]
RoomConfigs(f) == {Undefined, Config(f)}
\* The error the f-th database read rejects with.
DbError(f) == [kind |-> "dbError", id |-> f]
InvalidRoomIdError == [kind |-> "Invalid roomId: must be a positive integer", id |-> 0]

\* What a map holds for a key that is not in it.
Absent == [kind |-> "absent", id |-> 0]
NoPromise == 0

\* No reaction is between two of its statements.
NoReaction == [fetch |-> 0, config |-> Absent]

\* ------------------------------------------------------------------ state

VARIABLES
    cachedConfigMap,   \* key -> config; Absent when the Map has no such key
    pendingPromises,   \* key -> index in fetches; NoPromise when no such key
    fetches,           \* the readConfigFromDb calls, each with its configPromise
    lastCall,          \* what the latest fetchRoomConfig or getCacheStats
                       \* call returned
    calledSinceClear,  \* room ids fetched since the latest clearCache
    failedSinceCall,   \* room ids with a failed read and no fetch since
    reaction           \* the then reaction that has run its first statement
                       \* and not yet its second; NoReaction otherwise

vars == <<cachedConfigMap, pendingPromises, fetches, lastCall,
          calledSinceClear, failedSinceCall, reaction>>

\* The achievements pager of src/src/question2.ts.  One stream content is
\* read twice: by readAchievementsPage, whose handlers run as the stream
\* emits, and by readAchievementsPageGenerator, which takes the chunks of its
\* own copy of the stream when its consumer asks for pages.
VARIABLES
    chunks,            \* the chunks the stream has emitted so far
    ending,            \* "open", or how the stream finished: "end", "error"
    buffer,            \* readAchievementsPage: let buffer
    currentPage,       \* readAchievementsPage: let currentPage
    calls,             \* the calls of onPage, onDone and onError, in order
    gen,               \* the generator object of readAchievementsPageGenerator
    reader             \* how the call of readAchievementsPage went

pagerVars == <<chunks, ending, buffer, currentPage, calls, gen, reader>>

\* The wheel of src/src/question3.ts: one caller has a wheel, makes a
\* spinner of it with one of the two functions, and calls the spinner.
VARIABLES
    wheel,             \* the value the caller passes as the wheel
    madeBy,            \* the function the caller made the spinner with
    spinner,           \* what that call gave: a spinner, or the error thrown
    spun               \* the latest call of the spinner: randomValue, reward

wheelVars == <<wheel, madeBy, spinner, spun>>

allVars == <<vars, pagerVars, wheelVars>>

\* ------------------------------------------------------------------ Map

MapHas(m, k) == m[k] # Absent
\* Map.prototype.get: undefined for a missing key.
MapGet(m, k) == IF m[k] = Absent THEN Undefined ELSE m[k]
MapSetEveryKey(m, k, v) == [x \in DOMAIN m |-> v]
\* Map.prototype.set
MapSet(m, k, v) == [m EXCEPT ![k] = v]
MapDeleteAll(m, k, none) == [x \in DOMAIN m |-> none]
\* Map.prototype.delete
MapDelete(m, k, none) == [m EXCEPT ![k] = none]
MapClearNothing(m, none) == m
\* Map.prototype.clear
MapClear(m, none) == [x \in DOMAIN m |-> none]
MapSizeNonEmpty(m, none) == IF \E k \in DOMAIN m : m[k] # none THEN 1 ELSE 0
\* Map.prototype.size
MapSize(m, none) == Cardinality({k \in DOMAIN m : m[k] # none})

\* ------------------------------------------------------------------ fetchRoomConfig

NumberIsInteger(x) == x.kind = "finite" /\ x.twice % 2 = 0
\* x <= 0 on JavaScript numbers: false for NaN and Infinity.
LessOrEqualZero(x) ==
    \/ x.kind = "-Infinity"
    \/ x.kind = "finite" /\ x.twice <= 0

IsInvalidRoomIdZeroAllowed(x) ==
    ~NumberIsInteger(x) \/ (x.kind = "finite" /\ x.twice < 0)
\* if (!Number.isInteger(roomId) || roomId <= 0) throw
IsInvalidRoomId(x) == ~NumberIsInteger(x) \/ LessOrEqualZero(x)

\* if (cachedConfig !== undefined) return cachedConfig
IsCached(cache, roomId) == MapGet(cache, roomId) # Undefined

IsInFlightNever(pending, roomId) == FALSE
\* if (pendingPromise) return pendingPromise
IsInFlight(pending, roomId) == pending[roomId] # NoPromise

NoCall == [ret |-> "none", value |-> Undefined, promise |-> NoPromise]

\* The database reads for roomId that have started and not settled.
Outstanding(roomId) ==
    {f \in 1..Len(fetches) :
        fetches[f].roomId = roomId /\ fetches[f].state = "pending"}

FetchRoomConfig(x) ==
    IF IsInvalidRoomId(x)
    THEN /\ lastCall' = [ret |-> "throw",
                         value |-> InvalidRoomIdError, promise |-> NoPromise]
         /\ UNCHANGED <<cachedConfigMap, pendingPromises, fetches,
                        calledSinceClear, failedSinceCall>>
    ELSE LET roomId == RoomIdOf(x) IN
         /\ calledSinceClear' = calledSinceClear \cup {roomId}
         /\ failedSinceCall' = failedSinceCall \ {roomId}
         /\ UNCHANGED cachedConfigMap
         /\ IF IsCached(cachedConfigMap, roomId)
            THEN /\ lastCall' = [ret |-> "cached",
                                 value |-> MapGet(cachedConfigMap, roomId),
                                 promise |-> NoPromise]
                 /\ UNCHANGED <<pendingPromises, fetches>>
            ELSE IF IsInFlight(pendingPromises, roomId)
            THEN /\ lastCall' = [ret |-> "pending",
                                 value |-> Undefined,
                                 promise |-> pendingPromises[roomId]]
                 /\ UNCHANGED <<pendingPromises, fetches>>
            ELSE /\ Len(fetches) < MaxFetches
                 /\ fetches' = Append(fetches,
                        [roomId |-> roomId, state |-> "pending",
                         result |-> Undefined, cleared |-> FALSE])
                 /\ pendingPromises' =
                        MapSet(pendingPromises, roomId, Len(fetches) + 1)
                 /\ lastCall' = [ret |-> "new",
                                 value |-> Undefined,
                                 promise |-> Len(fetches) + 1]

\* ------------------------------------------------------------------ promise reactions

CacheUntouchedByThen(cache, roomId, config) == cache
\* cachedConfigMap.set(roomId, config) of the then reaction
CacheAfterThen(cache, roomId, config) == MapSet(cache, roomId, config)

PendingKeptAfterThen(pending, roomId) == pending
\* pendingPromises.delete(roomId) of the then reaction
PendingAfterThen(pending, roomId) == MapDelete(pending, roomId, NoPromise)

\* .then((config) => { cachedConfigMap.set(roomId, config);
\*                     pendingPromises.delete(roomId); return config; })
ThenHandler(f, config) ==
    LET roomId == fetches[f].roomId IN
    /\ fetches[f].state = "pending"
    /\ cachedConfigMap' = CacheAfterThen(cachedConfigMap, roomId, config)
    /\ pendingPromises' = PendingAfterThen(pendingPromises, roomId)
    /\ fetches' = [fetches EXCEPT ![f].state = "fulfilled",
                                  ![f].result = config]
    /\ UNCHANGED <<lastCall, calledSinceClear, failedSinceCall>>

\* The same reaction statement by statement.  Its first statement:
\* cachedConfigMap.set(roomId, config)
ThenSet(f, config) ==
    LET roomId == fetches[f].roomId IN
    /\ reaction = NoReaction
    /\ fetches[f].state = "pending"
    /\ cachedConfigMap' = CacheAfterThen(cachedConfigMap, roomId, config)
    /\ reaction' = [fetch |-> f, config |-> config]
    /\ UNCHANGED <<pendingPromises, fetches, lastCall, calledSinceClear,
                   failedSinceCall>>

\* Its second statement and its return:
\* pendingPromises.delete(roomId); return config
ThenDelete ==
    LET f == reaction.fetch
        roomId == fetches[f].roomId
    IN  /\ reaction # NoReaction
        /\ pendingPromises' = PendingAfterThen(pendingPromises, roomId)
        /\ fetches' = [fetches EXCEPT ![f].state = "fulfilled",
                                      ![f].result = reaction.config]
        /\ reaction' = NoReaction
        /\ UNCHANGED <<cachedConfigMap, lastCall, calledSinceClear,
                       failedSinceCall>>

PendingAfterCatchKept(pending, roomId) == pending
\* pendingPromises.delete(roomId) of the catch reaction
PendingAfterCatch(pending, roomId) == MapDelete(pending, roomId, NoPromise)

\* .catch((error) => { pendingPromises.delete(roomId); throw error; })
CatchHandler(f, error) ==
    LET roomId == fetches[f].roomId IN
    /\ fetches[f].state = "pending"
    /\ pendingPromises' = PendingAfterCatch(pendingPromises, roomId)
    /\ fetches' = [fetches EXCEPT ![f].state = "rejected",
                                  ![f].result = error]
    /\ failedSinceCall' = failedSinceCall \cup {roomId}
    /\ UNCHANGED <<cachedConfigMap, lastCall, calledSinceClear>>

\* ------------------------------------------------------------------ clearCache

\* Both maps are cleared; the database reads in flight go on, and each is
\* marked as having been in flight when the cache was cleared.
ClearCache ==
    /\ cachedConfigMap' = MapClear(cachedConfigMap, Absent)
    /\ pendingPromises' = MapClear(pendingPromises, NoPromise)
    /\ fetches' = [f \in 1..Len(fetches) |->
                       IF fetches[f].state = "pending"
                       THEN [fetches[f] EXCEPT !.cleared = TRUE]
                       ELSE fetches[f]]
    /\ calledSinceClear' = {}
    /\ UNCHANGED <<lastCall, failedSinceCall>>

\* ------------------------------------------------------------------ getCacheStats

\* return { cachedConfigs: cachedConfigMap.size,
\*          pendingRequests: pendingPromises.size }
GetCacheStats ==
    /\ lastCall' =
           [ret |-> "stats",
            value |-> [cachedConfigs |-> MapSize(cachedConfigMap, Absent),
                       pendingRequests |-> MapSize(pendingPromises, NoPromise)],
            promise |-> NoPromise]
    /\ UNCHANGED <<cachedConfigMap, pendingPromises, fetches,
                   calledSinceClear, failedSinceCall>>

\* ------------------------------------------------------------------ strings

\* A string is the sequence of its characters.  The characters the streams
\* carry: two letters, the blank and the delimiter.
Whitespace == {" "}
Delimiter == ";"
Chars == {"a", "b"} \cup Whitespace \cup {Delimiter}

\* String.prototype.indexOf: positions count from 0; -1 when c is not in s.
IndexOf(s, c) ==
    IF \E i \in 1..Len(s) : s[i] = c
    THEN (CHOOSE i \in 1..Len(s) :
              s[i] = c /\ \A j \in 1..(i - 1) : s[j] # c) - 1
    ELSE -1

\* String.prototype.slice(from, to): positions from 0, to is excluded.
Slice(s, from, to) == SubSeq(s, from + 1, to)

RECURSIVE TrimStart(_)
TrimStart(s) ==
    IF s # <<>> /\ Head(s) \in Whitespace THEN TrimStart(Tail(s)) ELSE s
RECURSIVE TrimEnd(_)
TrimEnd(s) ==
    IF s # <<>> /\ s[Len(s)] \in Whitespace
    THEN TrimEnd(SubSeq(s, 1, Len(s) - 1))
    ELSE s
\* String.prototype.trim
Trim(s) == TrimEnd(TrimStart(s))

\* if (achievement), if (remaining): the empty string is falsy.
Truthy(s) == s # <<>>

\* Array.prototype.join(';')
RECURSIVE Join(_)
Join(achievements) ==
    IF achievements = <<>> THEN <<>>
    ELSE IF Len(achievements) = 1 THEN Head(achievements)
    ELSE Head(achievements) \o <<Delimiter>> \o Join(Tail(achievements))

\* ------------------------------------------------------------------ pager

\* const PAGE_SIZE = 10
PAGE_SIZE == 10

BufferReplacedByChunk(buf, chunk) == chunk
\* buffer += chunk
BufferPlusChunk(buf, chunk) == buf \o chunk

PageIsFullOneEarly(page) == Len(page) = PAGE_SIZE - 1
\* if (currentPage.length === PAGE_SIZE)
PageIsFull(page) == Len(page) = PAGE_SIZE

LastPageAlways(page) == TRUE
\* if (currentPage.length > 0)
HasLastPage(page) == Len(page) > 0

AchievementUntrimmed(buf, semicolonIndex) == Slice(buf, 0, semicolonIndex)
\* const achievement = buffer.slice(0, semicolonIndex).trim()
Achievement(buf, semicolonIndex) == Trim(Slice(buf, 0, semicolonIndex))

\* buffer = buffer.slice(semicolonIndex + 1)
AfterSemicolon(buf, semicolonIndex) == Slice(buf, semicolonIndex + 1, Len(buf))

PageKeptAfterOnPage(page) == page
\* currentPage = [] after onPage([...currentPage])
PageAfterOnPage(page) == <<>>

\* The while loop of the 'data' handler, run on buffer buf and page so far
\* page; emitted are the pages it has passed to onPage.
RECURSIVE WhileSemicolon(_, _, _)
WhileSemicolon(buf, page, emitted) ==
    LET semicolonIndex == IndexOf(buf, Delimiter) IN
    IF semicolonIndex = -1
    THEN [buffer |-> buf, currentPage |-> page, pages |-> emitted]
    ELSE LET achievement == Achievement(buf, semicolonIndex)
             rest == AfterSemicolon(buf, semicolonIndex)
             pushed == Append(page, achievement)
         IN  IF ~Truthy(achievement)
             THEN WhileSemicolon(rest, page, emitted)
             ELSE IF PageIsFull(pushed)
             THEN WhileSemicolon(rest, PageAfterOnPage(pushed),
                                 Append(emitted, pushed))
             ELSE WhileSemicolon(rest, pushed, emitted)

PageAtEndWithoutRemaining(buf, page) == page
\* const remaining = buffer.trim();
\* if (remaining) currentPage.push(remaining)
PageAtEnd(buf, page) ==
    LET remaining == Trim(buf) IN
    IF Truthy(remaining) THEN Append(page, remaining) ELSE page

\* The calls the pager makes to its three callbacks.
OnPageCall(page) == [fn |-> "onPage", page |-> page, error |-> ""]
OnDoneCall == [fn |-> "onDone", page |-> <<>>, error |-> ""]
\* onError(error) with the error the stream emitted
OnErrorCall == [fn |-> "onError", page |-> <<>>, error |-> "stream error"]
\* onError(new Error('Invalid parameters provided'))
InvalidParametersCall ==
    [fn |-> "onError", page |-> <<>>, error |-> "Invalid parameters provided"]

\* The pages passed to onPage, in order, and the number of onDone and of
\* onError calls.
onPageCalls ==
    LET at == {i \in 1..Len(calls) : calls[i].fn = "onPage"}
        Nth(n) == CHOOSE i \in at : Cardinality({j \in at : j < i}) = n - 1
    IN  [n \in 1..Cardinality(at) |-> calls[Nth(n)].page]
onDoneCalls == Cardinality({i \in 1..Len(calls) : calls[i].fn = "onDone"})
onErrorCalls == Cardinality({i \in 1..Len(calls) : calls[i].fn = "onError"})

\* The arguments a caller passes for the stream and for a callback.
StreamArgs == {"Readable", "null"}
CallbackArgs == {"function", "undefined"}

\* !stream
NoStream(stream) == stream = "null"
\* typeof f !== 'function'
NotFunction(f) == f # "function"

InvalidParametersStreamOnly(stream, onPage, onDone, onError) ==
    NoStream(stream)
\* !stream || typeof onPage !== 'function' || typeof onDone !== 'function'
\*         || typeof onError !== 'function'
InvalidParameters(stream, onPage, onDone, onError) ==
    \/ NoStream(stream)
    \/ NotFunction(onPage)
    \/ NotFunction(onDone)
    \/ NotFunction(onError)

\* readAchievementsPage(stream, onPage, onDone, onError), up to its return:
\*   "listening" the three handlers are on the stream
\*   "returned"  it reported invalid parameters to onError and returned
\*   "threw"     reporting them threw a TypeError, onError being no function
ReadAchievementsPage(stream, onPage, onDone, onError) ==
    /\ reader = "none"
    /\ IF InvalidParameters(stream, onPage, onDone, onError)
       THEN IF NotFunction(onError)
            THEN reader' = "threw" /\ UNCHANGED calls
            ELSE /\ reader' = "returned"
                 /\ calls' = Append(calls, InvalidParametersCall)
       ELSE reader' = "listening" /\ UNCHANGED calls
    /\ UNCHANGED <<chunks, ending, buffer, currentPage, gen>>
    /\ UNCHANGED <<vars, wheelVars>>

\* stream.on('data', (chunk) => { ... })
OnData(chunk) ==
    LET after == WhileSemicolon(BufferPlusChunk(buffer, chunk), currentPage, <<>>)
    IN  /\ buffer' = after.buffer
        /\ currentPage' = after.currentPage
        /\ calls' = calls \o [i \in 1..Len(after.pages) |->
                                  OnPageCall(after.pages[i])]

DoneTwice(log) == Append(Append(log, OnDoneCall), OnDoneCall)
\* onDone()
Done(log) == Append(log, OnDoneCall)

\* stream.on('end', () => { ... })
OnEnd ==
    LET page == PageAtEnd(buffer, currentPage) IN
    /\ currentPage' = page
    /\ calls' = Done(IF HasLastPage(page)
                     THEN Append(calls, OnPageCall(page))
                     ELSE calls)
    /\ UNCHANGED buffer

ErrorAfterFlush(page, log) ==
    Append(IF Len(page) > 0 THEN Append(log, OnPageCall(page)) ELSE log,
           OnErrorCall)
\* onError(error) of the 'error' handler
ErrorOnly(page, log) == Append(log, OnErrorCall)

\* stream.on('error', (error) => { onError(error); })
OnError ==
    /\ calls' = ErrorOnly(currentPage, calls)
    /\ UNCHANGED <<buffer, currentPage>>

\* ------------------------------------------------------------------ generator

\* The generator object: where it is suspended (pc), its two locals, how
\* many chunks its for-await loop has taken, and the pages it has yielded.
\*   "start"      created, body not entered
\*   "await"      in for await, waiting for the stream
\*   "yield"      suspended at the yield of the while loop
\*   "finalYield" suspended at the yield after the loop
\*   "returned"   ran to its end;  "thrown": rethrew the stream's error
\*   "none"       not created yet
\*   "startNoStream" created without a stream, body not entered
\*   "threwRequired" threw 'Stream is required'
GenAt(pc, buf, page, pos, yielded) ==
    [pc |-> pc, buffer |-> buf, currentPage |-> page, pos |-> pos,
     yielded |-> yielded]

\* The body from the head of the while loop, run until the generator
\* suspends or finishes.  With no delimiter in the buffer the for-await loop
\* takes the next chunk, waits for it, ends or throws, as the stream stands.
RECURSIVE GenRun(_, _, _, _)
GenRun(buf, page, pos, yielded) ==
    LET semicolonIndex == IndexOf(buf, Delimiter) IN
    IF semicolonIndex # -1
    THEN LET achievement == Achievement(buf, semicolonIndex)
             rest == AfterSemicolon(buf, semicolonIndex)
             pushed == Append(page, achievement)
         IN  IF ~Truthy(achievement)
             THEN GenRun(rest, page, pos, yielded)
             ELSE IF PageIsFull(pushed)
             THEN GenAt("yield", rest, pushed, pos, Append(yielded, pushed))
             ELSE GenRun(rest, pushed, pos, yielded)
    ELSE IF pos < Len(chunks)
    THEN GenRun(BufferPlusChunk(buf, chunks[pos + 1]), page, pos + 1, yielded)
    ELSE IF ending = "open"
    THEN GenAt("await", buf, page, pos, yielded)
    ELSE IF ending = "error"
    THEN GenAt("thrown", buf, page, pos, yielded)
    ELSE LET last == PageAtEnd(buf, page) IN
         IF HasLastPage(last)
         THEN GenAt("finalYield", buf, last, pos, Append(yielded, last))
         ELSE GenAt("returned", buf, last, pos, yielded)

PageKeptAfterYield(page) == page
\* currentPage = [] on resuming after the yield of the while loop
PageAfterYield(page) == <<>>

\* readAchievementsPageGenerator(stream): the call returns the generator
\* object; an async generator runs none of its body before the first next().
ReadAchievementsPageGenerator(stream) ==
    /\ gen.pc = "none"
    /\ gen' = GenAt(IF NoStream(stream) THEN "startNoStream" ELSE "start",
                    <<>>, <<>>, 0, <<>>)
    /\ UNCHANGED <<chunks, ending, buffer, currentPage, calls, reader>>
    /\ UNCHANGED <<vars, wheelVars>>

\* The consumer calls next() on the suspended generator.
GenNext ==
    /\ gen.pc \in {"start", "startNoStream", "yield", "finalYield"}
    /\ gen' = CASE gen.pc = "start" -> GenRun(<<>>, <<>>, 0, <<>>)
                [] gen.pc = "startNoStream" ->
                       GenAt("threwRequired", <<>>, <<>>, 0, <<>>)
                [] gen.pc = "yield" ->
                       GenRun(gen.buffer, PageAfterYield(gen.currentPage),
                              gen.pos, gen.yielded)
                [] gen.pc = "finalYield" ->
                       GenAt("returned", gen.buffer, gen.currentPage,
                             gen.pos, gen.yielded)
    /\ UNCHANGED <<chunks, ending, buffer, currentPage, calls, reader>>
    /\ UNCHANGED <<vars, wheelVars>>

\* The stream has a chunk, its end or its error for the waiting for-await.
GenResume ==
    /\ gen.pc = "await"
    /\ gen.pos < Len(chunks) \/ ending # "open"
    /\ gen' = GenRun(gen.buffer, gen.currentPage, gen.pos, gen.yielded)
    /\ UNCHANGED <<chunks, ending, buffer, currentPage, calls, reader>>
    /\ UNCHANGED <<vars, wheelVars>>

\* ------------------------------------------------------------------ stream

\* createAchievementsStream(['a', 'b', 'a', ...]): nine records in one chunk.
NineAchievements ==
    Join([i \in 1..(PAGE_SIZE - 1) |-> IF i % 2 = 1 THEN <<"a">> ELSE <<"b">>])
        \o <<Delimiter>>

\* The chunks a stream emits: a piece of a record, the delimiter alone, a
\* blank, these two pieces in one chunk, a chunk with blanks, an empty
\* field and an unfinished record, and nine records at once.
Chunks ==
    {<<"a">>, <<Delimiter>>, <<" ">>, <<"a", Delimiter>>,
     <<" ", "a", " ", Delimiter, Delimiter, " ", "b">>,
     NineAchievements}

\* The callbacks may raise.  A call of onPage or onDone that raised, and the
\* onError call of the catch block that took what it raised.
OnPageRaised(page) == [fn |-> "onPage", page |-> page, error |-> "raised"]
OnDoneRaised == [fn |-> "onDone", page |-> <<>>, error |-> "raised"]
CaughtErrorCall == [fn |-> "onError", page |-> <<>>, error |-> "caught"]

\* The while loop of the 'data' handler inside its try block, with an
\* onPage that raises when onPageRaises: the call that raises leaves the
\* loop, after the slice of the buffer and the push, and before
\* currentPage = [].
RECURSIVE TryWhileSemicolon(_, _, _, _)
TryWhileSemicolon(buf, page, emitted, onPageRaises) ==
    LET semicolonIndex == IndexOf(buf, Delimiter) IN
    IF semicolonIndex = -1
    THEN [buffer |-> buf, currentPage |-> page, pages |-> emitted,
          raised |-> FALSE]
    ELSE LET achievement == Achievement(buf, semicolonIndex)
             rest == AfterSemicolon(buf, semicolonIndex)
             pushed == Append(page, achievement)
         IN  IF ~Truthy(achievement)
             THEN TryWhileSemicolon(rest, page, emitted, onPageRaises)
             ELSE IF PageIsFull(pushed)
             THEN IF onPageRaises
                  THEN [buffer |-> rest, currentPage |-> pushed,
                        pages |-> Append(emitted, pushed), raised |-> TRUE]
                  ELSE TryWhileSemicolon(rest, PageAfterOnPage(pushed),
                                         Append(emitted, pushed), onPageRaises)
             ELSE TryWhileSemicolon(rest, pushed, emitted, onPageRaises)

\* stream.on('data', ...) with its try and catch
TryOnData(chunk, onPageRaises) ==
    LET after == TryWhileSemicolon(BufferPlusChunk(buffer, chunk),
                                   currentPage, <<>>, onPageRaises)
        n == Len(after.pages)
    IN  /\ buffer' = after.buffer
        /\ currentPage' = after.currentPage
        /\ calls' = calls
               \o [i \in 1..n |-> IF after.raised /\ i = n
                                   THEN OnPageRaised(after.pages[i])
                                   ELSE OnPageCall(after.pages[i])]
               \o (IF after.raised THEN <<CaughtErrorCall>> ELSE <<>>)

\* stream.on('end', ...) with its try and catch
TryOnEnd(onPageRaises, onDoneRaises) ==
    LET page == PageAtEnd(buffer, currentPage) IN
    /\ currentPage' = page
    /\ calls' =
          IF HasLastPage(page) /\ onPageRaises
          THEN calls \o <<OnPageRaised(page), CaughtErrorCall>>
          ELSE (IF HasLastPage(page)
                THEN Append(calls, OnPageCall(page))
                ELSE calls)
               \o (IF onDoneRaises
                   THEN <<OnDoneRaised, CaughtErrorCall>>
                   ELSE <<OnDoneCall>>)
    /\ UNCHANGED buffer

\* A Readable gives nothing before it has a reader: the two calls are made,
\* and a 'data' handler is attached or a generator holds the stream.
Flowing ==
    /\ reader # "none"
    /\ gen.pc # "none"
    /\ reader = "listening" \/ gen.pc \notin {"startNoStream", "threwRequired"}

\* The handlers of readAchievementsPage run when it attached them.
Listening(handler) ==
    IF reader = "listening"
    THEN handler
    ELSE UNCHANGED <<buffer, currentPage, calls>>

\* The stream emits 'data', and the 'data' handler runs.
StreamData ==
    /\ Flowing
    /\ ending = "open"
    /\ Len(chunks) < MaxChunks
    /\ \E chunk \in Chunks :
          /\ chunks' = Append(chunks, chunk)
          /\ Listening(OnData(chunk))
    /\ UNCHANGED <<ending, gen, reader>>
    /\ UNCHANGED <<vars, wheelVars>>

\* The stream emits 'end', and the 'end' handler runs.
StreamEnd ==
    /\ Flowing
    /\ ending = "open"
    /\ ending' = "end"
    /\ Listening(OnEnd)
    /\ UNCHANGED <<chunks, gen, reader>>
    /\ UNCHANGED <<vars, wheelVars>>

\* The stream is destroyed with an error: it emits 'error', the 'error'
\* handler runs, and the stream emits nothing after that.
StreamError ==
    /\ Flowing
    /\ ending = "open"
    /\ ending' = "error"
    /\ Listening(OnError)
    /\ UNCHANGED <<chunks, gen, reader>>
    /\ UNCHANGED <<vars, wheelVars>>

\* Both pagers made with a stream and, for readAchievementsPage, with its
\* three callbacks.
PagerInit ==
    /\ chunks = <<>>
    /\ ending = "open"
    /\ buffer = <<>>
    /\ currentPage = <<>>
    /\ calls = <<>>
    /\ gen = GenAt("start", <<>>, <<>>, 0, <<>>)
    /\ reader = "listening"

\* const data = achievements.join(';') + ';'
CreateAchievementsStream(achievements) == Join(achievements) \o <<Delimiter>>

\* The achievements of the lists: a name, another, and one with a blank
\* inside.
AchievementNames == <<<<"a">>, <<"b">>, <<"a", " ", "b">>>>

\* The lists given to createAchievementsStream: every length up to the
\* bound, the names taken in turn from each of the three.
AchievementList(n, k) ==
    [i \in 1..n |-> AchievementNames[((i + k) % Len(AchievementNames)) + 1]]
AchievementLists ==
    {AchievementList(n, k) :
         n \in 0..MaxAchievements, k \in 1..Len(AchievementNames)}

\* Readable.from([data]): the stream emits the one chunk, and then 'end'.
CreatedStreamData ==
    /\ Flowing
    /\ ending = "open"
    /\ chunks = <<>>
    /\ \E achievements \in AchievementLists :
          LET data == CreateAchievementsStream(achievements) IN
          /\ chunks' = <<data>>
          /\ Listening(OnData(data))
    /\ UNCHANGED <<ending, gen, reader>>
    /\ UNCHANGED <<vars, wheelVars>>
CreatedStreamEnd ==
    /\ chunks # <<>>
    /\ StreamEnd

CreatedStreamNext ==
    CreatedStreamData \/ CreatedStreamEnd \/ GenNext \/ GenResume

\* The stream events when the callbacks given to readAchievementsPage may
\* raise.
RaisingData ==
    /\ Flowing
    /\ ending = "open"
    /\ Len(chunks) < MaxChunks
    /\ \E chunk \in Chunks : \E onPageRaises \in BOOLEAN :
          /\ chunks' = Append(chunks, chunk)
          /\ Listening(TryOnData(chunk, onPageRaises))
    /\ UNCHANGED <<ending, gen, reader>>
    /\ UNCHANGED <<vars, wheelVars>>
RaisingEnd ==
    /\ Flowing
    /\ ending = "open"
    /\ ending' = "end"
    /\ \E onPageRaises, onDoneRaises \in BOOLEAN :
          Listening(TryOnEnd(onPageRaises, onDoneRaises))
    /\ UNCHANGED <<chunks, gen, reader>>
    /\ UNCHANGED <<vars, wheelVars>>

RaisingNext == RaisingData \/ RaisingEnd \/ StreamError

PagerNext == StreamData \/ StreamEnd \/ StreamError \/ GenNext \/ GenResume

\* No pager made yet.
PagerUnmade ==
    /\ chunks = <<>>
    /\ ending = "open"
    /\ buffer = <<>>
    /\ currentPage = <<>>
    /\ calls = <<>>
    /\ gen = GenAt("none", <<>>, <<>>, 0, <<>>)
    /\ reader = "none"

\* The callers' two calls, with every combination of arguments.
MakeReader ==
    \E stream \in StreamArgs : \E onPage, onDone, onError \in CallbackArgs :
        ReadAchievementsPage(stream, onPage, onDone, onError)
MakeGenerator ==
    \E stream \in StreamArgs : ReadAchievementsPageGenerator(stream)

PagerArgsNext == MakeReader \/ MakeGenerator \/ PagerNext

\* ------------------------------------------------------------------ wheel

\* The weights of the wedges.  A weight that is a number is held like a room
\* id, as twice its value: 0, 0.5, 1, 2 and -1, then NaN and the two
\* infinities.  The others are the string 'invalid' and the weight of a
\* wedge that has none.
StringWeight == [kind |-> "string", twice |-> 0]
NoWeight == [kind |-> "undefined", twice |-> 0]
Weights ==
    {Finite(0), Finite(1), Finite(2), Finite(4), Finite(-2),
     NaN, PosInfinity, NegInfinity, StringWeight, NoWeight}

\* The entries of a wheel: a wedge object, or null, undefined or a string.
\* The reward of a wedge is the place it has in the caller's wheel, from 0.
Wedge(weight, reward) == [kind |-> "object", weight |-> weight, reward |-> reward]
NullEntry == [kind |-> "null", weight |-> NoWeight, reward |-> -1]
UndefinedEntry == [kind |-> "undefined", weight |-> NoWeight, reward |-> -1]
StringEntry == [kind |-> "string", weight |-> NoWeight, reward |-> -1]
Entries ==
    {Wedge(weight, 0) : weight \in Weights}
        \cup {NullEntry, UndefinedEntry, StringEntry}
Placed(entry, i) ==
    IF entry.kind = "object" THEN Wedge(entry.weight, i) ELSE entry

\* The values passed as the wheel: an array of entries, null or undefined.
Array(items) == [kind |-> "array", items |-> items]
NullWheel == [kind |-> "null", items |-> <<>>]
UndefinedWheel == [kind |-> "undefined", items |-> <<>>]
ArrayOf(entries) ==
    Array([i \in 1..Len(entries) |-> Placed(entries[i], i - 1)])

\* typeof x === 'number'
TypeofNumber(x) == x.kind \in {"finite", "NaN", "Infinity", "-Infinity"}
LessThanZeroNever(x) == FALSE
\* x < 0 on JavaScript numbers: false for NaN
LessThanZero(x) == x.kind = "-Infinity" \/ (x.kind = "finite" /\ x.twice < 0)
\* Number.isFinite(x)
NumberIsFinite(x) == x.kind = "finite"
GreaterOrEqualZero(x) ==
    x.kind = "Infinity" \/ (x.kind = "finite" /\ x.twice >= 0)
\* x > 0, the operand made a number first: undefined and 'invalid' give NaN
GreaterThanZero(x) == x.kind = "Infinity" \/ (x.kind = "finite" /\ x.twice > 0)

\* What a call of getWheelSpinner or getAdvancedWheelSpinner gives: the
\* error it throws, with the index the message names (-1 when it names
\* none), or the spinner, which is the closure over totalWeight,
\* cumulativeWeights and wheel.  The two numbers are held as twice their
\* value.
NoSpinner ==
    [outcome |-> "none", message |-> "", index |-> -1,
     totalWeight |-> 0, cumulativeWeights |-> <<>>, wheel |-> <<>>]
Threw(message, index) ==
    [outcome |-> "threw", message |-> message, index |-> index,
     totalWeight |-> 0, cumulativeWeights |-> <<>>, wheel |-> <<>>]
SpinnerOver(totalWeight, cumulativeWeights, items) ==
    [outcome |-> "spinner", message |-> "", index |-> -1,
     totalWeight |-> totalWeight, cumulativeWeights |-> cumulativeWeights,
     wheel |-> items]

\* if (!Array.isArray(wheel) || wheel.length === 0)
IsEmptyOrNoArray(w) == w.kind # "array" \/ Len(w.items) = 0

\* if (!wedge || typeof wedge !== 'object')
IsNoObject(wedge) == wedge.kind # "object"

TotalIsZeroNever(totalWeight) == FALSE
\* if (totalWeight === 0)
TotalIsZero(totalWeight) == totalWeight = 0

TotalReplaced(totalWeight, weight) == weight.twice
\* totalWeight += wedge.weight
TotalPlus(totalWeight, weight) == totalWeight + weight.twice

CumulativePushFront(cumulativeWeights, totalWeight) ==
    <<totalWeight>> \o cumulativeWeights
\* cumulativeWeights.push(totalWeight)
CumulativePush(cumulativeWeights, totalWeight) ==
    Append(cumulativeWeights, totalWeight)

\* for (let i = 0; i < wheel.length; i++) { ... } and what follows the loop,
\* from the i-th entry on
RECURSIVE ForEachWedge(_, _, _, _)
ForEachWedge(items, i, totalWeight, cumulativeWeights) ==
    IF i < Len(items)
    THEN LET wedge == items[i + 1] IN
         IF IsNoObject(wedge)
         THEN Threw("Invalid wedge: must be an object", i)
         ELSE IF ~TypeofNumber(wedge.weight)
         THEN Threw("Invalid weight: must be a number", i)
         ELSE IF LessThanZero(wedge.weight)
         THEN Threw("Invalid weight: cannot be negative", i)
         ELSE IF ~NumberIsFinite(wedge.weight)
         THEN Threw("Invalid weight: must be finite", i)
         ELSE LET total == TotalPlus(totalWeight, wedge.weight) IN
              ForEachWedge(items, i + 1, total,
                           CumulativePush(cumulativeWeights, total))
    ELSE IF TotalIsZero(totalWeight)
    THEN Threw("All wedges have zero weight - cannot select randomly", -1)
    ELSE SpinnerOver(totalWeight, cumulativeWeights, items)

\* getWheelSpinner(wheel)
GetWheelSpinner(w) ==
    IF IsEmptyOrNoArray(w)
    THEN Threw("Wheel must be a non-empty array", -1)
    ELSE ForEachWedge(w.items, 0, 0, <<>>)

\* wheel.filter(wedge => wedge.weight > 0)
RECURSIVE Filter(_)
Filter(items) ==
    IF items = <<>> THEN <<>>
    ELSE IF GreaterThanZero(Head(items).weight)
    THEN <<Head(items)>> \o Filter(Tail(items))
    ELSE Filter(Tail(items))

\* Reading wheel.filter of null or undefined, or wedge.weight of a null or
\* undefined entry, throws a TypeError.
FilterThrows(w) ==
    \/ w.kind # "array"
    \/ \E i \in 1..Len(w.items) : w.items[i].kind \in {"null", "undefined"}

\* getAdvancedWheelSpinner(wheel)
GetAdvancedWheelSpinner(w) ==
    IF FilterThrows(w)
    THEN Threw("TypeError", -1)
    ELSE LET activeWedges == Filter(w.items) IN
         IF Len(activeWedges) = 0
         THEN Threw("No wedges with positive weight available", -1)
         ELSE GetWheelSpinner(Array(activeWedges))

\* The body of the spinner with randomValue given, as twice its value:
\* the reward of the first i with randomValue < cumulativeWeights[i], and
\* that of the last wedge when there is none.
IsAtOrBelow(randomValue, cumulativeWeight) == randomValue <= cumulativeWeight
\* if (randomValue < cumulativeWeights[i])
IsBelow(randomValue, cumulativeWeight) == randomValue < cumulativeWeight

FirstIndex(items) == 1
\* wheel[wheel.length - 1], the places of a sequence counted from 1
LastIndex(items) == Len(items)

RECURSIVE FirstAbove(_, _, _)
FirstAbove(s, randomValue, i) ==
    IF i < Len(s.cumulativeWeights)
    THEN IF IsBelow(randomValue, s.cumulativeWeights[i + 1])
         THEN s.wheel[i + 1].reward
         ELSE FirstAbove(s, randomValue, i + 1)
    ELSE s.wheel[LastIndex(s.wheel)].reward
SpinnerCall(s, randomValue) == FirstAbove(s, randomValue, 0)

\* The values of Math.random() * totalWeight, in halves: those from 0 up to
\* totalWeight, and two at and above it, where no cumulative weight exceeds
\* the draw, as with a total beyond the range of a double.
RandomValues(totalWeight) == 0..(totalWeight + 1)

SpinnerConsumed(s) ==
    [s EXCEPT !.cumulativeWeights =
                  [i \in 1..Len(@) |-> IF i = 1 THEN 0 ELSE @[i]]]
\* The spinner after a call: the closure assigns to nothing it holds.
SpinnerAfterCall(s) == s

NoSpin == [randomValue |-> -1, reward |-> -1]

\* const spinner = getWheelSpinner(wheel)
MakeSpinner ==
    /\ madeBy = "none"
    /\ madeBy' = "getWheelSpinner"
    /\ spinner' = GetWheelSpinner(wheel)
    /\ UNCHANGED <<wheel, spun>>
    /\ UNCHANGED <<vars, pagerVars>>

\* const spinner = getAdvancedWheelSpinner(wheel)
MakeAdvancedSpinner ==
    /\ madeBy = "none"
    /\ madeBy' = "getAdvancedWheelSpinner"
    /\ spinner' = GetAdvancedWheelSpinner(wheel)
    /\ UNCHANGED <<wheel, spun>>
    /\ UNCHANGED <<vars, pagerVars>>

\* spinner()
Spin ==
    /\ spinner.outcome = "spinner"
    /\ \E randomValue \in RandomValues(spinner.totalWeight) :
          spun' = [randomValue |-> randomValue,
                   reward |-> SpinnerCall(spinner, randomValue)]
    /\ spinner' = SpinnerAfterCall(spinner)
    /\ UNCHANGED <<wheel, madeBy>>
    /\ UNCHANGED <<vars, pagerVars>>

\* No wheel in use.
WheelIdle ==
    /\ wheel = Array(<<>>)
    /\ madeBy = "none"
    /\ spinner = NoSpinner
    /\ spun = NoSpin

\* The caller has a wheel, null, undefined or an array of up to MaxWedges
\* entries, and has made no spinner yet.
WheelInit ==
    /\ \/ wheel \in {NullWheel, UndefinedWheel}
       \/ \E n \in 0..MaxWedges : \E entries \in [1..n -> Entries] :
              wheel = ArrayOf(entries)
    /\ madeBy = "none"
    /\ spinner = NoSpinner
    /\ spun = NoSpin

WheelNext == MakeSpinner \/ MakeAdvancedSpinner \/ Spin

\* ------------------------------------------------------------------ specification

CacheInit ==
    /\ cachedConfigMap = [k \in MapKeys |-> Absent]
    /\ pendingPromises = [k \in MapKeys |-> NoPromise]
    /\ fetches = <<>>
    /\ lastCall = NoCall
    /\ calledSinceClear = {}
    /\ failedSinceCall = {}
    /\ reaction = NoReaction

Init ==
    /\ CacheInit
    /\ PagerInit
    /\ WheelIdle

\* The steps of the cache; no pager is running.
Call ==
    /\ \E x \in RoomIdArgs : FetchRoomConfig(x)
    /\ UNCHANGED <<reaction, pagerVars, wheelVars>>
DbResolves ==
    /\ \E f \in 1..Len(fetches) :
          \E config \in RoomConfigs(f) : ThenHandler(f, config)
    /\ UNCHANGED <<reaction, pagerVars, wheelVars>>
DbRejects ==
    /\ \E f \in 1..Len(fetches) : CatchHandler(f, DbError(f))
    /\ UNCHANGED <<reaction, pagerVars, wheelVars>>
Reset == ClearCache /\ UNCHANGED <<reaction, pagerVars, wheelVars>>
Stats == GetCacheStats /\ UNCHANGED <<reaction, pagerVars, wheelVars>>

\* The then reaction taken statement by statement.  A reaction runs to its
\* end before anything else runs: between its two statements no call is
\* made and no other reaction starts.
BetweenStatements == reaction # NoReaction
CallAlone == ~BetweenStatements /\ Call
DbRejectsAlone == ~BetweenStatements /\ DbRejects
ResetAlone == ~BetweenStatements /\ Reset
DbResolvesFirst ==
    /\ \E f \in 1..Len(fetches) :
          \E config \in RoomConfigs(f) : ThenSet(f, config)
    /\ UNCHANGED <<pagerVars, wheelVars>>
DbResolvesSecond == ThenDelete /\ UNCHANGED <<pagerVars, wheelVars>>

NextStatements ==
    CallAlone \/ DbRejectsAlone \/ ResetAlone
        \/ DbResolvesFirst \/ DbResolvesSecond

SpecStatements == Init /\ [][NextStatements]_allVars

Next == Call \/ DbResolves \/ DbRejects \/ Reset

Spec == Init /\ [][Next]_allVars

\* The f-th database read settles, and the reaction of its outcome runs.
DbSettles(f) ==
    /\ f \in 1..Len(fetches)
    /\ \/ \E config \in RoomConfigs(f) : ThenHandler(f, config)
       \/ CatchHandler(f, DbError(f))
    /\ UNCHANGED <<reaction, pagerVars, wheelVars>>

\* The cache over a database whose reads all settle in the end.
SpecFair == Spec /\ \A f \in 1..MaxFetches : WF_allVars(DbSettles(f))

\* The cache with its callers also reading the statistics.
NextStats == Next \/ Stats

SpecStats == Init /\ [][NextStats]_allVars

\* The two pagers reading one stream content, the cache not in use.
SpecPager == Init /\ [][PagerNext]_allVars

\* readAchievementsPage on a stream, with callbacks that may raise.
SpecRaising == Init /\ [][RaisingNext]_allVars

\* The pagers from the calls that make them, whatever the arguments.
InitArgs ==
    /\ CacheInit
    /\ PagerUnmade
    /\ WheelIdle

SpecPagerArgs == InitArgs /\ [][PagerArgsNext]_allVars

\* The two pagers reading a stream made by createAchievementsStream.
SpecCreatedStream == Init /\ [][CreatedStreamNext]_allVars

\* The wheel: every wheel of up to MaxWedges entries, made into a spinner
\* and spun.
InitWheel ==
    /\ CacheInit
    /\ PagerInit
    /\ WheelInit

SpecWheel == InitWheel /\ [][WheelNext]_allVars

\* ------------------------------------------------------------------ steps

\* The argument with which a caller asks for room id k.
Arg(k) == Finite(2 * k)

\* The step is the completion (success or failure) of database read f.
Settles(f) == fetches[f].state = "pending" /\ fetches'[f].state # "pending"
Rejects(f) == fetches[f].state = "pending" /\ fetches'[f].state = "rejected"
Fulfils(f) == fetches[f].state = "pending" /\ fetches'[f].state = "fulfilled"

\* The step starts exactly one database read, for room id k, registers it
\* and hands its promise to the caller.
StartsOneFetch(k) ==
    /\ Len(fetches') = Len(fetches) + 1
    /\ fetches'[Len(fetches')].roomId = k
    /\ fetches'[Len(fetches')].state = "pending"
    /\ pendingPromises'[k] = Len(fetches')
    /\ lastCall'.ret = "new"
    /\ lastCall'.promise = Len(fetches')

\* The database reads for k that were in flight when clearCache was called.
ClearedInFlight(k) ==
    {f \in 1..Len(fetches) : fetches[f].roomId = k /\ fetches[f].cleared}

\* ------------------------------------------------------------------ C1

\* C1 (as claimed): a fetch(K) call issued while no value for K is cached and
\* while a database read for K started since the latest reset is still
\* outstanding starts no further read and receives the promise of that read.
C1_ConcurrentCallsShareOneFetch ==
    [][\A k \in RoomIds :
          LET fresh == {f \in Outstanding(k) : ~fetches[f].cleared} IN
          (/\ FetchRoomConfig(Arg(k))
           /\ ~IsCached(cachedConfigMap, k)
           /\ fresh # {})
          => (/\ fetches' = fetches
              /\ lastCall'.promise \in fresh)]_vars

\* ------------------------------------------------------------------ C2

C3_CachedAfterSuccess ==
    [][\A k \in RoomIds :
          (FetchRoomConfig(Arg(k)) /\ MapHas(cachedConfigMap, k))
          => (/\ lastCall'.ret = "cached"
              /\ lastCall'.value = cachedConfigMap[k]
              /\ fetches' = fetches)]_vars

\* ------------------------------------------------------------------ C4

\* A failed read removes its room id from the in-flight set and leaves the
\* entry set as it was.
FailureClearsInFlight ==
    \A f \in 1..Len(fetches) :
        Rejects(f) =>
            /\ ~IsInFlight(pendingPromises', fetches[f].roomId)
            /\ cachedConfigMap' = cachedConfigMap

\* A read that succeeds is cached under its room id and is the settled value
\* of the promise handed out for it.
SuccessIsCached ==
    \A f \in 1..Len(fetches) :
        Fulfils(f) =>
            /\ cachedConfigMap'[fetches[f].roomId] = fetches'[f].result
            /\ fetches'[f].result \in RoomConfigs(f)

C5_EntryAndInFlightDisjoint ==
    \A k \in RoomIds :
        ~(MapHas(cachedConfigMap, k) /\ IsInFlight(pendingPromises, k))

\* ------------------------------------------------------------------ C6

\* A positive integer, said without the code's test.
IsPositiveInteger(x) ==
    x.kind = "finite" /\ x.twice \in {2 * n : n \in 1..x.twice}

\* C6: fetch(x) fails validation exactly when x is not a positive integer,
\* and then it fails with the invalid-argument error, starts no database read
\* and leaves the entry set and the in-flight set unchanged.
C6_Validation ==
    [][\A x \in RoomIdArgs :
          FetchRoomConfig(x) =>
              /\ (lastCall'.ret = "throw") <=> ~IsPositiveInteger(x)
              /\ ~IsPositiveInteger(x) =>
                    /\ lastCall'.value = InvalidRoomIdError
                    /\ UNCHANGED <<cachedConfigMap, pendingPromises, fetches>>]_vars

\* The latest call was rejected as invalid while one room id is cached and
\* another is in flight.
C6_Witness ==
    /\ lastCall.ret = "throw"
    /\ lastCall.value = InvalidRoomIdError
    /\ \E j, k \in RoomIds :
          IsCached(cachedConfigMap, j) /\ IsInFlight(pendingPromises, k)

\* ------------------------------------------------------------------ C7

\* C7 (as claimed): an entry with a value keeps that value in every step
\* other than a reset().
C7_EntriesImmutable ==
    [][\A k \in RoomIds :
          IsCached(cachedConfigMap, k)
          => (cachedConfigMap'[k] = cachedConfigMap[k] \/ ClearCache)]_vars

\* ------------------------------------------------------------------ C8

\* C8 (as claimed): when a read that was in flight at a reset() settles while
\* a newer read for the same room id is registered, the newer registration
\* stays in the in-flight set.
C8_StaleCompletionKeepsNewer ==
    [][\A f \in 1..Len(fetches) :
          LET k == fetches[f].roomId IN
          (/\ Settles(f)
           /\ fetches[f].cleared
           /\ IsInFlight(pendingPromises, k)
           /\ pendingPromises[k] # f)
          => pendingPromises'[k] = pendingPromises[k]]_vars

\* ------------------------------------------------------------------ C9

\* C9: the completion of a read for K changes the entry and the in-flight
\* registration of no other key.
C9_CompletionFrame ==
    [][\A f \in 1..Len(fetches) :
          Settles(f) =>
              \A j \in MapKeys \ {fetches[f].roomId} :
                  /\ cachedConfigMap'[j] = cachedConfigMap[j]
                  /\ pendingPromises'[j] = pendingPromises[j]]_vars

\* Two reads, for different room ids, were both in flight at a reset() and both
\* resolved after it: the one that resolved second did so with the other
\* room id's entry in place, and both entries are there.
C9_Witness ==
    \E f, g \in 1..Len(fetches) :
        /\ fetches[f].roomId # fetches[g].roomId
        /\ fetches[f].cleared /\ fetches[g].cleared
        /\ cachedConfigMap[fetches[f].roomId] = Config(f)
        /\ cachedConfigMap[fetches[g].roomId] = Config(g)

\* ------------------------------------------------------------------ C10

\* reset() empties both sets and cancels no read.
ClearEmptiesBoth ==
    ClearCache =>
        /\ \A k \in MapKeys :
              ~MapHas(cachedConfigMap', k) /\ ~IsInFlight(pendingPromises', k)
        /\ Len(fetches') = Len(fetches)
        /\ \A f \in 1..Len(fetches) : fetches'[f].state = fetches[f].state

ResolvedFor(k, fs) ==
    {f \in 1..Len(fs) : fs[f].roomId = k /\ fs[f].state = "fulfilled"}

\* C11: what a fetch(K) call returns is a value a database read for K
\* resolved with, or the promise of a database read for K; every entry of the
\* entry set is a value a read for its own key resolved with; and a call for
\* a key that has no defined entry and no registration starts a read of its
\* own, whatever is cached or in flight for the other keys.
C11_ValuesComeFromOwnKey ==
    [][/\ \A k \in RoomIds :
             FetchRoomConfig(Arg(k)) =>
                 /\ lastCall'.ret \in {"cached", "pending", "new"}
                 /\ lastCall'.ret = "cached" =>
                        \E f \in ResolvedFor(k, fetches) :
                            lastCall'.value = fetches[f].result
                 /\ lastCall'.ret \in {"pending", "new"} =>
                        /\ lastCall'.promise \in 1..Len(fetches')
                        /\ fetches'[lastCall'.promise].roomId = k
                 /\ (~IsCached(cachedConfigMap, k)
                        /\ ~IsInFlight(pendingPromises, k)) => StartsOneFetch(k)
       /\ \A k \in MapKeys :
             MapHas(cachedConfigMap', k) =>
                 \E f \in ResolvedFor(k, fetches') :
                     cachedConfigMap'[k] = fetches'[f].result]_vars

\* Both room ids are cached, each with the config of its own read, and the
\* latest call returned the entry of the one while the other was cached.
C11_Witness ==
    \E f, g \in 1..Len(fetches) :
        /\ fetches[f].roomId # fetches[g].roomId
        /\ cachedConfigMap[fetches[f].roomId] = Config(f)
        /\ cachedConfigMap[fetches[g].roomId] = Config(g)
        /\ lastCall.ret = "cached"
        /\ lastCall.value = Config(g)

\* ------------------------------------------------------------------ C12

\* The keys of the entry set and of the in-flight set, counted key by key.
EntryKeys == {k \in MapKeys : MapHas(cachedConfigMap, k)}
InFlightKeys == {k \in MapKeys : IsInFlight(pendingPromises, k)}

\* Exactly one read was started, and no reset() came after its call.
OnlyFirstFetch(state) ==
    /\ Len(fetches) = 1
    /\ fetches[1].state = state
    /\ fetches[1].roomId \in calledSinceClear

\* C12: stats() returns the number of keys of the entry set and of the
\* in-flight set as they are at the call, changes neither set and starts no
\* read: 0 and 0 before any call, 0 and 1 right after a first fetch, 1 and 0
\* once that fetch has resolved.
C12_StatsObserve ==
    [][GetCacheStats =>
          /\ lastCall'.ret = "stats"
          /\ lastCall'.value.cachedConfigs = Cardinality(EntryKeys)
          /\ lastCall'.value.pendingRequests = Cardinality(InFlightKeys)
          /\ UNCHANGED <<cachedConfigMap, pendingPromises, fetches>>
          /\ fetches = <<>> =>
                lastCall'.value = [cachedConfigs |-> 0, pendingRequests |-> 0]
          /\ OnlyFirstFetch("pending") =>
                lastCall'.value = [cachedConfigs |-> 0, pendingRequests |-> 1]
          /\ OnlyFirstFetch("fulfilled") =>
                lastCall'.value = [cachedConfigs |-> 1, pendingRequests |-> 0]]_vars

\* stats() has just reported two cached configs and one request in flight,
\* and that is what the two sets hold.
C12_Witness ==
    /\ lastCall.ret = "stats"
    /\ lastCall.value = [cachedConfigs |-> 2, pendingRequests |-> 1]
    /\ Cardinality(EntryKeys) = 2
    /\ Cardinality(InFlightKeys) = 1

\* ------------------------------------------------------------------ C13

\* The database reads that have started and not settled.
RequestsInFlight == {f \in 1..Len(fetches) : fetches[f].state = "pending"}

\* C13 (as claimed): the pendingRequests that stats() reports is the number
\* of database reads in flight at the call.
C13_PendingIsReadsInFlight ==
    [][GetCacheStats =>
          lastCall'.value.pendingRequests = Cardinality(RequestsInFlight)]_vars

\* ------------------------------------------------------------------ pager runs

\* The concatenation of a sequence of sequences (chunks to text, pages to
\* records).
RECURSIVE Concat(_)
Concat(ss) == IF ss = <<>> THEN <<>> ELSE Head(ss) \o Concat(Tail(ss))

\* The whole text the stream has carried.
Text == Concat(chunks)

\* A string without its leading and trailing blanks, said by positions.
Trimmed(s) ==
    LET inked == {i \in 1..Len(s) : s[i] \notin Whitespace} IN
    IF inked = {} THEN <<>>
    ELSE SubSeq(s, CHOOSE i \in inked : \A j \in inked : i <= j,
                   CHOOSE i \in inked : \A j \in inked : i >= j)

\* The fields of a text: what lies between two neighbouring delimiters,
\* before the first and after the last.
Fields(text) ==
    LET cuts == {i \in 1..Len(text) : text[i] = Delimiter}
        starts == {1} \cup {i + 1 : i \in cuts}
        EndOf(b) ==
            IF \E i \in cuts : i >= b
            THEN (CHOOSE i \in cuts : i >= b /\ \A j \in cuts : j >= b => i <= j) - 1
            ELSE Len(text)
        Nth(n) == CHOOSE b \in starts : Cardinality({c \in starts : c < b}) = n - 1
    IN  [n \in 1..Cardinality(starts) |-> SubSeq(text, Nth(n), EndOf(Nth(n)))]

\* The records of a text: its fields trimmed, the empty ones dropped.
RECURSIVE NonEmpty(_)
NonEmpty(fs) ==
    IF fs = <<>> THEN <<>>
    ELSE IF Head(fs) = <<>> THEN NonEmpty(Tail(fs))
    ELSE <<Head(fs)>> \o NonEmpty(Tail(fs))
Records(text) ==
    LET fields == Fields(text) IN
    NonEmpty([n \in 1..Len(fields) |-> Trimmed(fields[n])])

\* The push pager has signalled completion; the pull pager has returned.
PushCompleted == onDoneCalls > 0
PullCompleted == gen.pc = "returned"

\* ------------------------------------------------------------------ C14

\* C14: when a pager has completed, the records of its pages, taken in
\* order, are the records of the whole text: its fields between delimiters,
\* trimmed, the empty ones dropped, the remainder after the last delimiter
\* being the last field; and that whatever the chunks the text came in.
C14_PagesAreTheRecords ==
    /\ PushCompleted => Concat(onPageCalls) = Records(Text)
    /\ PullCompleted => Concat(gen.yielded) = Records(Text)

\* Both pagers have completed a text of more than PAGE_SIZE records that
\* ends in an unterminated record, with a record that began in one chunk and
\* ended in a later one.
C14_Witness ==
    /\ PushCompleted /\ PullCompleted
    /\ Len(Records(Text)) > PAGE_SIZE
    /\ Text[Len(Text)] \notin Whitespace \cup {Delimiter}
    /\ \E i \in 1..(Len(chunks) - 1) :
          /\ chunks[i][Len(chunks[i])] \notin Whitespace \cup {Delimiter}
          /\ chunks[i + 1][1] \notin Whitespace \cup {Delimiter}

\* ------------------------------------------------------------------ C15

\* Every page has between 1 and PAGE_SIZE records, and every page but the
\* last has PAGE_SIZE; a pager that has not completed has emitted full pages
\* only.
WellSized(pages, completed) ==
    \A i \in 1..Len(pages) :
        /\ Len(pages[i]) \in 1..PAGE_SIZE
        /\ (i < Len(pages) \/ ~completed) => Len(pages[i]) = PAGE_SIZE

\* The number of pages that n records fill: none for no record, no extra
\* page for a multiple of PAGE_SIZE.
PagesFor(n) == (n + PAGE_SIZE - 1) \div PAGE_SIZE

\* C15: every emitted page holds between 1 and PAGE_SIZE records and every
\* page other than the last holds exactly PAGE_SIZE; a completed pager has
\* emitted as many pages as its records fill, so no empty page after a
\* multiple of PAGE_SIZE and no page at all for a text without records.
C15_PageSizes ==
    /\ WellSized(onPageCalls, PushCompleted)
    /\ WellSized(gen.yielded, gen.pc \in {"finalYield", "returned"})
    /\ PushCompleted => Len(onPageCalls) = PagesFor(Len(Records(Text)))
    /\ PullCompleted => Len(gen.yielded) = PagesFor(Len(Records(Text)))

\* Both pagers have completed a text of exactly twice PAGE_SIZE records with
\* two pages.
C15_Witness ==
    /\ PushCompleted /\ PullCompleted
    /\ Len(Records(Text)) = 2 * PAGE_SIZE
    /\ Len(onPageCalls) = 2
    /\ Len(gen.yielded) = 2

\* ------------------------------------------------------------------ C16

\* The pages a pager emits for a text that arrives as one chunk.
PagesOfOneChunk(text) ==
    LET after == WhileSemicolon(BufferPlusChunk(<<>>, text), <<>>, <<>>)
        last == PageAtEnd(after.buffer, after.currentPage)
    IN  IF HasLastPage(last) THEN Append(after.pages, last) ELSE after.pages

\* C16: the pages of a completed pager are the pages of its text delivered
\* as one chunk; so two ways of cutting one text into chunks give the same
\* pages.
C16_ChunkingInvariance ==
    /\ PushCompleted => onPageCalls = PagesOfOneChunk(Text)
    /\ PullCompleted => gen.yielded = PagesOfOneChunk(Text)

\* Both pagers have completed a text that came in four chunks and that two
\* chunks of the stream, cut elsewhere, also spell; it has a record.
C16_Witness ==
    /\ PushCompleted /\ PullCompleted
    /\ Len(chunks) = MaxChunks
    /\ \E c1, c2 \in Chunks : Text = c1 \o c2
    /\ onPageCalls # <<>>

\* ------------------------------------------------------------------ C17

\* How a pager's run has come out, if it has.
PushOutcome ==
    IF onDoneCalls > 0 /\ onErrorCalls > 0 THEN "both"
    ELSE IF onDoneCalls > 0 THEN "completed"
    ELSE IF onErrorCalls > 0 THEN "error"
    ELSE "running"
PullOutcome ==
    CASE gen.pc = "returned" -> "completed"
      [] gen.pc = "thrown" -> "error"
      [] OTHER -> "running"

\* s is an initial part of t.
IsPrefix(s, t) == Len(s) <= Len(t) /\ s = SubSeq(t, 1, Len(s))

\* C17: on one stream content the pull pager never yields a page the push
\* pager did not emit at the same place, and once both runs have come out
\* they have produced the same pages and the same outcome: both completed,
\* or both reported the stream's error.
C17_PushPullAgree ==
    /\ IsPrefix(gen.yielded, onPageCalls)
    /\ (PushOutcome # "running" /\ PullOutcome # "running") =>
          /\ gen.yielded = onPageCalls
          /\ PullOutcome = PushOutcome

\* The stream failed after a full page and with records waiting in the
\* partial page: both pagers reported the error after that one page.
C17_Witness ==
    /\ PushOutcome = "error" /\ PullOutcome = "error"
    /\ Len(onPageCalls) = 1 /\ gen.yielded = onPageCalls
    /\ currentPage # <<>> /\ gen.currentPage = currentPage

\* ------------------------------------------------------------------ C18

\* A record as the pages may hold it: not empty, no blank at either end, no
\* delimiter inside.
CleanRecord(r) ==
    /\ r # <<>>
    /\ r[1] \notin Whitespace
    /\ r[Len(r)] \notin Whitespace
    /\ \A i \in 1..Len(r) : r[i] # Delimiter

AllClean(page) == \A i \in 1..Len(page) : CleanRecord(page[i])

\* C18: every record of every emitted page, and every record counted in a
\* page being filled, is non-empty, has no blank at either end and holds no
\* delimiter: empty and blank-only fields are in no page and count toward
\* none.
C18_RecordsAreClean ==
    /\ \A i \in 1..Len(onPageCalls) : AllClean(onPageCalls[i])
    /\ \A i \in 1..Len(gen.yielded) : AllClean(gen.yielded[i])
    /\ AllClean(currentPage)
    /\ AllClean(gen.currentPage)

\* Both pagers have emitted a page of a text that has an empty field, a
\* blank-only field and a record with blanks on both sides.
C18_Witness ==
    LET fields == Fields(Text) IN
    /\ onPageCalls # <<>> /\ gen.yielded # <<>>
    /\ \E n \in 1..(Len(fields) - 1) : fields[n] = <<>>
    /\ \E n \in 1..(Len(fields) - 1) :
          fields[n] # <<>> /\ Trimmed(fields[n]) = <<>>
    /\ \E n \in 1..(Len(fields) - 1) :
          /\ Trimmed(fields[n]) # <<>>
          /\ fields[n][1] \in Whitespace
          /\ fields[n][Len(fields[n])] \in Whitespace

\* ------------------------------------------------------------------ C19

\* The records of the text that follow those of the pages emitted so far.
RecordsAfter(pages) ==
    SubSeq(Records(Text), Len(Concat(pages)) + 1, Len(Records(Text)))

\* A request of the consumer, or the stream's news, moves the generator on.
GenCanMove ==
    \/ gen.pc \in {"start", "yield", "finalYield"}
    \/ gen.pc = "await" /\ (gen.pos < Len(chunks) \/ ending # "open")

\* C19: when the stream ends, the push pager passes the records not yet
\* emitted, if there are any, to onPage as one page, then calls onDone, and
\* calls nothing after that; the pull pager yields that page once, returns
\* on the request that follows (at once when there is no such record),
\* changes nothing after returning, and after the end of the stream it never
\* throws and, until it has returned, is never left waiting.
C19_FinalPageThenDone ==
    /\ [][StreamEnd =>
             calls' = calls
                 \o (IF RecordsAfter(onPageCalls) # <<>>
                     THEN <<OnPageCall(RecordsAfter(onPageCalls))>>
                     ELSE <<>>)
                 \o <<OnDoneCall>>]_allVars
    /\ [][PushCompleted => calls' = calls]_allVars
    /\ [][(gen'.pc = "finalYield" /\ gen.pc # "finalYield") =>
             /\ RecordsAfter(gen.yielded) # <<>>
             /\ gen'.yielded =
                    Append(gen.yielded, RecordsAfter(gen.yielded))]_allVars
    /\ [][(gen'.pc = "returned" /\ gen.pc # "returned") =>
             /\ gen'.yielded = gen.yielded
             /\ RecordsAfter(gen.yielded) = <<>>]_allVars
    /\ [][(gen.pc = "finalYield" /\ gen' # gen) => gen'.pc = "returned"]_allVars
    /\ [][PullCompleted => gen' = gen]_allVars
    /\ [](ending = "end" =>
             /\ gen.pc # "thrown"
             /\ PullCompleted \/ GenCanMove)

\* Both pagers have completed with a full page followed by a final page of
\* fewer records, and the push pager's last two calls are that page and
\* onDone.
C19_Witness ==
    /\ PullCompleted
    /\ Len(calls) = 3
    /\ calls[1].fn = "onPage" /\ Len(calls[1].page) = PAGE_SIZE
    /\ calls[2].fn = "onPage" /\ Len(calls[2].page) < PAGE_SIZE
    /\ calls[3] = OnDoneCall
    /\ gen.yielded = <<calls[1].page, calls[2].page>>
    /\ Concat(gen.yielded) = Records(Text)

\* ------------------------------------------------------------------ C20

\* C20: when the stream fails, the push pager calls onError and nothing
\* else, the records waiting in its partial page included, and calls nothing
\* after that; the pull pager throws only for a failed stream, yields no page
\* in the step in which it throws, changes nothing after it, and after the
\* failure of the stream it never returns normally and, until it has thrown,
\* is never left waiting.
C20_ErrorEndsTheRun ==
    /\ [][StreamError => calls' = Append(calls, OnErrorCall)]_allVars
    /\ [][onErrorCalls > 0 => calls' = calls]_allVars
    /\ [][(gen'.pc = "thrown" /\ gen.pc # "thrown") =>
             gen'.yielded = gen.yielded]_allVars
    /\ [][gen.pc = "thrown" => gen' = gen]_allVars
    /\ [](gen.pc = "thrown" => ending = "error")
    /\ [](ending = "error" =>
             /\ onDoneCalls = 0
             /\ gen.pc \notin {"finalYield", "returned"}
             /\ gen.pc = "thrown" \/ GenCanMove)

\* The stream failed before any page was full, with records waiting in the
\* partial page and an unfinished record in the buffer: onError is the only
\* call made, and the generator has thrown without a page.
C20_Witness ==
    /\ calls = <<OnErrorCall>>
    /\ currentPage # <<>> /\ Trim(buffer) # <<>>
    /\ gen.pc = "thrown" /\ gen.yielded = <<>>
    /\ gen.currentPage = currentPage

\* ------------------------------------------------------------------ C21

\* An argument of readAchievementsPage is missing.
MissingArgument(stream, onPage, onDone, onError) ==
    \/ stream = "null"
    \/ "undefined" \in {onPage, onDone, onError}

\* readAchievementsPage has failed: it reported the invalid parameters to
\* onError, or threw.
ReaderFailed == reader \in {"returned", "threw"}

\* The generator made without a stream has read and yielded nothing.
GeneratorWithoutStream == gen.pc \in {"startNoStream", "threwRequired"}

\* The call of readAchievementsPage with a missing argument fails, with the
\* error given to onError or thrown, and the call of
\* readAchievementsPageGenerator without a stream makes a generator that
\* reads nothing.
C21_CallFails ==
    /\ \A stream \in StreamArgs : \A onPage, onDone, onError \in CallbackArgs :
          ReadAchievementsPage(stream, onPage, onDone, onError)
              /\ MissingArgument(stream, onPage, onDone, onError)
          => /\ ReaderFailed'
             /\ reader' = "returned"
                    => calls' = Append(calls, InvalidParametersCall)
             /\ reader' = "returned" <=> onError = "function"
    /\ ReadAchievementsPageGenerator("null") => GeneratorWithoutStream'

\* The generator made without a stream throws at the first request for a
\* page, and does nothing after that.
C21_FirstRequestThrows ==
    /\ gen.pc = "startNoStream" /\ gen' # gen => gen'.pc = "threwRequired"
    /\ gen.pc = "threwRequired" => gen' = gen

\* After the failure nothing is read, whatever the stream emits: no chunk is
\* taken, no page is given and the end is not signalled.
C21_NothingRead ==
    /\ ReaderFailed =>
          /\ buffer = <<>>
          /\ currentPage = <<>>
          /\ onPageCalls = <<>>
          /\ onDoneCalls = 0
          /\ calls \in {<<>>, <<InvalidParametersCall>>}
    /\ GeneratorWithoutStream =>
          /\ gen.pos = 0
          /\ gen.buffer = <<>>
          /\ gen.yielded = <<>>

\* C21: a pager made with a missing stream (either interface) or, for
\* readAchievementsPage, a missing page, done or error callback fails with an
\* error before any data is read: it consumes no chunk, emits no page and
\* does not signal completion.
C21_InvalidArgumentsFailBeforeReading ==
    /\ [][C21_CallFails /\ C21_FirstRequestThrows]_allVars
    /\ []C21_NothingRead

\* Both pagers were made with a missing argument and have failed, the
\* generator at its first request.
C21_Witness ==
    /\ reader = "returned"
    /\ gen.pc = "threwRequired"

\* ------------------------------------------------------------------ C22

\* The consecutive slices of PAGE_SIZE of a list, the remainder last.
Slices(xs) ==
    LET n == Len(xs)
        count == (n + PAGE_SIZE - 1) \div PAGE_SIZE
    IN  [p \in 1..count |->
            SubSeq(xs, (p - 1) * PAGE_SIZE + 1,
                   IF p * PAGE_SIZE < n THEN p * PAGE_SIZE ELSE n)]

\* C22: for every list xs of records that are non-empty, trimmed and free of
\* the delimiter, the pager over createAchievementsStream(xs) gives pages
\* whose concatenation is exactly xs, in consecutive slices of PAGE_SIZE with
\* the remainder last.
C22_RoundTrip ==
    \A xs \in AchievementLists :
        chunks = <<CreateAchievementsStream(xs)>> =>
            /\ PushCompleted =>
                  /\ onPageCalls = Slices(xs)
                  /\ Concat(onPageCalls) = xs
            /\ PullCompleted =>
                  /\ gen.yielded = Slices(xs)
                  /\ Concat(gen.yielded) = xs

\* Twenty-five achievements went through both pagers, in pages of ten, ten
\* and five.
C22_Witness ==
    /\ \E xs \in AchievementLists :
          /\ Len(xs) = 2 * PAGE_SIZE + 5
          /\ chunks = <<CreateAchievementsStream(xs)>>
    /\ PushCompleted
    /\ PullCompleted
    /\ [p \in 1..Len(onPageCalls) |-> Len(onPageCalls[p])] =
           <<PAGE_SIZE, PAGE_SIZE, 5>>
    /\ Len(gen.yielded) = 3

\* ------------------------------------------------------------------ wheel calls

\* The caller's wheel is an array, and its entries.
IsArray == wheel.kind = "array"
Items == wheel.items

\* A weight a wheel may have: a finite number, zero or more.
ValidWeight(x) == x.kind = "finite" /\ x.twice >= 0

\* An entry that is no object, or whose weight is no number, negative, NaN
\* or infinite.
Offending(entry) == entry.kind # "object" \/ ~ValidWeight(entry.weight)

\* The messages of the errors about the wheel or one of its entries.
InvalidWheelMessages ==
    {"Wheel must be a non-empty array",
     "Invalid wedge: must be an object",
     "Invalid weight: must be a number",
     "Invalid weight: cannot be negative",
     "Invalid weight: must be finite"}

\* ------------------------------------------------------------------ C23

\* C23: getWheelSpinner(wheel) fails with an error about the wheel when the
\* wheel is empty or no array, or when an entry is no object or has a weight
\* that is no number, negative, NaN or infinite; for an entry the error
\* names the index of the first such entry; no spinner is returned.
C23_InvalidWheelRejected ==
    madeBy = "getWheelSpinner" =>
        /\ ~IsArray \/ Items = <<>> =>
              spinner = Threw("Wheel must be a non-empty array", -1)
        /\ IsArray /\ (\E i \in 1..Len(Items) : Offending(Items[i])) =>
              /\ spinner.outcome = "threw"
              /\ spinner.message \in InvalidWheelMessages
              /\ Offending(Items[spinner.index + 1])
              /\ \A j \in 1..spinner.index : ~Offending(Items[j])

\* A wheel whose third entry is the first offending one, a negative weight
\* after a zero and a positive one, was rejected with index 2.
C23_Witness ==
    /\ madeBy = "getWheelSpinner"
    /\ Len(Items) = 3
    /\ Items[1].weight = Finite(0)
    /\ Items[3].weight = Finite(-2)
    /\ spinner = Threw("Invalid weight: cannot be negative", 2)

\* ------------------------------------------------------------------ C24

\* The wheel is a non-empty array of wedges with valid weights.
ValidEntries ==
    /\ IsArray
    /\ Items # <<>>
    /\ \A i \in 1..Len(Items) : ~Offending(Items[i])

\* The sum of the weights of wedges, as twice its value.
RECURSIVE SumOfWeights(_)
SumOfWeights(items) ==
    IF items = <<>> THEN 0
    ELSE Head(items).weight.twice + SumOfWeights(Tail(items))

AllZeroError == Threw("All wedges have zero weight - cannot select randomly", -1)

\* C24: on a non-empty wheel whose weights are all valid, getWheelSpinner
\* fails with the all-zero-weight error if and only if the weights sum to
\* exactly zero, and otherwise returns a spinner.
C24_AllZeroRejected ==
    madeBy = "getWheelSpinner" /\ ValidEntries =>
        /\ spinner = AllZeroError <=> SumOfWeights(Items) = 0
        /\ spinner.outcome = "spinner" <=> SumOfWeights(Items) # 0

\* A wheel of two zero weights was rejected.
C24_Witness ==
    /\ madeBy = "getWheelSpinner"
    /\ ValidEntries
    /\ Len(Items) = 2
    /\ SumOfWeights(Items) = 0
    /\ spinner = AllZeroError

\* ------------------------------------------------------------------ C25

\* The cumulative weight of the i-th wedge of a spinner's wheel (i from 1):
\* the sum of the weights up to it, as twice its value.
CumulativeWeight(i) == SumOfWeights(SubSeq(spinner.wheel, 1, i))

\* The wedges whose cumulative weight strictly exceeds r.
Exceeding(r) == {i \in 1..Len(spinner.wheel) : CumulativeWeight(i) > r}

\* The wedge the spinner is to select for r: the first exceeding one, the
\* last wedge when there is none.
Selected(r) ==
    IF Exceeding(r) # {}
    THEN CHOOSE i \in Exceeding(r) : \A j \in Exceeding(r) : i <= j
    ELSE Len(spinner.wheel)

\* The rewards of the wedges of the caller's wheel.
Rewards == {Items[i].reward : i \in {j \in 1..Len(Items) : Items[j].kind = "object"}}

\* C25: for every spinner built and every draw r, the spinner returns the
\* reward at the smallest index whose cumulative weight strictly exceeds r,
\* that of the last index when none exceeds it; the result is always the
\* reward of an entry of the wheel.
C25_SelectsFirstExceeding ==
    spun # NoSpin =>
        /\ spun.reward = spinner.wheel[Selected(spun.randomValue)].reward
        /\ spun.reward \in Rewards

\* The draw equal to the first of three cumulative weights selected the
\* second wedge.
C25_Witness ==
    /\ madeBy = "getWheelSpinner"
    /\ Len(Items) = 3
    /\ spun # NoSpin
    /\ spun.randomValue = CumulativeWeight(1)
    /\ CumulativeWeight(2) > CumulativeWeight(1)
    /\ spun.reward = Items[2].reward

\* ------------------------------------------------------------------ C26

\* The weights of the wheel are whole numbers.
IntegerWeights == \A i \in 1..Len(Items) : Items[i].weight.twice % 2 = 0

\* The whole draws below the total T, and those of them for which the
\* spinner returns the reward of the i-th wedge.
WholeDraws == 0..((spinner.totalWeight \div 2) - 1)
DrawsReturning(i) ==
    {r \in WholeDraws : SpinnerCall(spinner, 2 * r) = Items[i].reward}

\* C26: for a valid wheel with integer weights and total T, the number of
\* draws r in 0..T-1 for which the spinner returns entry i equals the weight
\* of entry i.
C26_Proportional ==
    /\ madeBy = "getWheelSpinner" /\ spinner.outcome = "spinner"
           /\ IntegerWeights
       => \A i \in 1..Len(Items) :
              2 * Cardinality(DrawsReturning(i)) = Items[i].weight.twice
    /\ spun # NoSpin /\ spun.randomValue % 2 = 0
           /\ spun.randomValue \div 2 \in WholeDraws
           /\ madeBy = "getWheelSpinner" /\ IntegerWeights
       => \E i \in 1..Len(Items) :
              /\ spun.reward = Items[i].reward
              /\ spun.randomValue \div 2 \in DrawsReturning(i)

\* The wheel of weights 2, 0 and 1 was spun with the last whole draw below
\* its total of 3, which returned the third wedge.
C26_Witness ==
    /\ madeBy = "getWheelSpinner"
    /\ Len(Items) = 3
    /\ Items[1].weight = Finite(4)
    /\ Items[2].weight = Finite(0)
    /\ Items[3].weight = Finite(2)
    /\ spinner.outcome = "spinner"
    /\ spun = [randomValue |-> 4, reward |-> Items[3].reward]
    /\ Cardinality(DrawsReturning(1)) = 2
    /\ Cardinality(DrawsReturning(3)) = 1

\* ------------------------------------------------------------------ C27

\* The wedges of the caller's wheel with the given reward.
WedgesRewarding(reward) ==
    {i \in 1..Len(Items) : Items[i].kind = "object" /\ Items[i].reward = reward}

\* The reward is that of wedges of positive weight only.
FromPositiveWeight(reward) ==
    /\ WedgesRewarding(reward) # {}
    /\ \A i \in WedgesRewarding(reward) :
          Items[i].weight.kind = "finite" /\ Items[i].weight.twice > 0

\* C27: for every valid wheel and every draw 0 <= r < totalWeight, the
\* spinner of getWheelSpinner never returns the reward of a zero-weight
\* entry, wherever the zero-weight entries sit in the wheel.
C27_NeverZeroWeight ==
    /\ madeBy = "getWheelSpinner"
    /\ spun # NoSpin
    /\ 0 <= spun.randomValue
    /\ spun.randomValue < spinner.totalWeight
    => FromPositiveWeight(spun.reward)

\* The wheel of weights 0, 1, 0 was spun with the draw 0 and with the
\* largest draw below its total; the state is the latter.
C27_Witness ==
    /\ madeBy = "getWheelSpinner"
    /\ Len(Items) = 3
    /\ Items[1].weight = Finite(0)
    /\ Items[2].weight = Finite(2)
    /\ Items[3].weight = Finite(0)
    /\ spun = [randomValue |-> spinner.totalWeight - 1,
               reward |-> Items[2].reward]

\* ------------------------------------------------------------------ C28

\* The wheel is an array without a null or undefined entry: the filter of
\* getAdvancedWheelSpinner can read a weight of each entry.
WeightsReadable ==
    /\ IsArray
    /\ \A i \in 1..Len(Items) : Items[i].kind \notin {"null", "undefined"}

\* An entry with a positive weight.
PositiveWeight(entry) ==
    /\ entry.kind = "object"
    /\ \/ entry.weight.kind = "Infinity"
       \/ entry.weight.kind = "finite" /\ entry.weight.twice > 0

NoPositiveWeightError == Threw("No wedges with positive weight available", -1)

BadNumber(entry) ==
    /\ entry.kind = "object"
    /\ TypeofNumber(entry.weight)
    /\ ~ValidWeight(entry.weight)

\* The wheel is an array of wedges with numbers for weights, one of them
\* negative, NaN or infinite, and another positive.
BadNextToPositive ==
    /\ IsArray
    /\ \A i \in 1..Len(Items) :
          Items[i].kind = "object" /\ TypeofNumber(Items[i].weight)
    /\ \E i \in 1..Len(Items) : BadNumber(Items[i])
    /\ \E i \in 1..Len(Items) :
          ValidWeight(Items[i].weight) /\ Items[i].weight.twice > 0

\* C29 (as claimed): getAdvancedWheelSpinner removes only the entries whose
\* weight is exactly zero: a wheel with a negative, NaN or infinite weight
\* next to positive entries is rejected with the error about the wheel,
\* exactly as getWheelSpinner rejects it.
C29_AdvancedRejectsAsBuild ==
    madeBy = "getAdvancedWheelSpinner" /\ BadNextToPositive =>
        /\ spinner.outcome = "threw"
        /\ spinner.message \in InvalidWheelMessages
        /\ spinner = GetWheelSpinner(wheel)

\* ------------------------------------------------------------------ C30

\* What the caller's call gave when it was made.
AsBuilt ==
    IF madeBy = "getWheelSpinner"
    THEN GetWheelSpinner(wheel)
    ELSE GetAdvancedWheelSpinner(wheel)

\* A call of the spinner leaves the cumulative weights, the total weight
\* and the wheel as they were, and two calls in a row with the same draw
\* return the same reward.
C30_SpinChangesNothing ==
    Spin =>
        /\ spinner'.cumulativeWeights = spinner.cumulativeWeights
        /\ spinner'.totalWeight = spinner.totalWeight
        /\ spinner'.wheel = spinner.wheel
        /\ wheel' = wheel
        /\ spun # NoSpin /\ spun'.randomValue = spun.randomValue
              => spun'.reward = spun.reward

\* After any number of calls the spinner is as it was built, and the reward
\* of the latest call is the one the spinner as built gives for its draw.
C30_RewardOfDrawOnly ==
    spun # NoSpin =>
        /\ spinner = AsBuilt
        /\ spun.reward = SpinnerCall(AsBuilt, spun.randomValue)

\* C30: a call of a built spinner changes nothing: the cumulative weights,
\* the total weight and the wheel are unchanged, and the reward returned
\* depends only on the draw r.
C30_SpinIsPure ==
    /\ [][C30_SpinChangesNothing]_allVars
    /\ []C30_RewardOfDrawOnly

\* A spinner over three wedges has been called and is as it was built.
C30_Witness ==
    /\ madeBy = "getWheelSpinner"
    /\ spun # NoSpin
    /\ Len(spinner.cumulativeWeights) = 3
    /\ spinner.cumulativeWeights[1] > 0
    /\ spinner = AsBuilt
    /\ wheel.items = spinner.wheel

\* ------------------------------------------------------------------ C31

\* C31: for every valid wheel, the cumulative weights built by
\* getWheelSpinner are as many as the wedges, the i-th is the sum of the
\* weights of the wedges up to the i-th, they never decrease, and the total
\* weight is the last of them.
C31_CumulativeWeights ==
    madeBy = "getWheelSpinner" /\ spinner.outcome = "spinner" =>
        LET cumulative == spinner.cumulativeWeights IN
        /\ Len(cumulative) = Len(Items)
        /\ \A i \in 1..Len(Items) :
              cumulative[i] = SumOfWeights(SubSeq(Items, 1, i))
        /\ \A i \in 1..(Len(cumulative) - 1) :
              cumulative[i] <= cumulative[i + 1]
        /\ spinner.totalWeight = cumulative[Len(cumulative)]

\* The spinner of the wheel of weights 0.5, 0 and 2 holds the cumulative
\* weights 0.5, 0.5 and 2.5.
C31_Witness ==
    /\ madeBy = "getWheelSpinner"
    /\ Len(Items) = 3
    /\ Items[1].weight = Finite(1)
    /\ Items[2].weight = Finite(0)
    /\ Items[3].weight = Finite(4)
    /\ spinner.cumulativeWeights = <<1, 1, 5>>
    /\ spinner.totalWeight = 5

\* ------------------------------------------------------------------ C32

\* The key of the then reaction that is between its two statements.
ReactionKey == fetches[reaction.fetch].roomId

\* C32 (as claimed): on successful resolution of the read for key K the
\* then reaction removes K's handle from pendingPromises first and only
\* then writes the value into cachedConfigMap: its first statement leaves
\* cachedConfigMap alone.
C32_HandleRemovedFirst ==
    [][DbResolvesFirst => cachedConfigMap' = cachedConfigMap]_allVars

\* The first statement writes the value for K and leaves pendingPromises
\* alone; the second removes K's handle and leaves cachedConfigMap alone.
C32_ValueThenHandle ==
    /\ DbResolvesFirst =>
          /\ cachedConfigMap'[fetches[reaction'.fetch].roomId] = reaction'.config
          /\ pendingPromises' = pendingPromises
    /\ DbResolvesSecond =>
          /\ pendingPromises'[ReactionKey] = NoPromise
          /\ cachedConfigMap' = cachedConfigMap
          /\ cachedConfigMap[ReactionKey] = reaction.config

\* C32 (amended): the then reaction writes the resolved value into
\* cachedConfigMap first and then removes K's handle from pendingPromises,
\* and nothing else runs between the two statements.
C32_ValueWrittenFirst ==
    /\ [][C32_ValueThenHandle]_allVars
    /\ [][BetweenStatements => DbResolvesSecond]_allVars

\* Between the two statements: the value of key 1 is written, and the
\* handle of the read that gave it is still in pendingPromises.
C32_Witness ==
    /\ BetweenStatements
    /\ ReactionKey = 1
    /\ reaction.config # Undefined
    /\ cachedConfigMap[1] = reaction.config
    /\ pendingPromises[1] = reaction.fetch

\* ------------------------------------------------------------------ C35

\* Nothing is registered in pendingPromises, and every promise given to a
\* caller has settled.
Quiet ==
    /\ InFlightKeys = {}
    /\ RequestsInFlight = {}

\* C35: if every database read started settles in the end and, from some
\* point on, no fetchRoomConfig call is made, then in the end
\* pendingPromises is empty and every promise given to a caller has
\* settled, also when clearCache was called while reads were outstanding.
\* (The reads all settle under SpecFair; either calls go on for ever, or
\* the cache becomes quiet and stays so.)
C35_EventuallyQuiet == []<><<Call>>_allVars \/ <>[]Quiet

\* Two reads for one room, the first in flight when clearCache was called,
\* have both settled, and nothing is left in pendingPromises.
C35_Witness ==
    /\ Quiet
    /\ Len(fetches) = 2
    /\ fetches[1].roomId = fetches[2].roomId
    /\ fetches[1].cleared
    /\ ~fetches[2].cleared

\* ------------------------------------------------------------------ C33

\* The places of the delimiters of a text, and the records the text has
\* closed with a delimiter up to place d.
Cuts(text) == {d \in 1..Len(text) : text[d] = Delimiter}
ClosedUpTo(text, d) == Records(SubSeq(text, 1, d))

\* The records a text has closed with a delimiter.
Closed(text) ==
    IF Cuts(text) = {} THEN <<>>
    ELSE ClosedUpTo(text, CHOOSE d \in Cuts(text) : \A e \in Cuts(text) : e <= d)

\* What follows, in a text, the delimiter that closes its n-th record.
AfterRecord(text, n) ==
    LET closing == {d \in Cuts(text) : Len(ClosedUpTo(text, d)) >= n}
        first == CHOOSE d \in closing : \A e \in closing : d <= e
    IN  SubSeq(text, first + 1, Len(text))

\* The first n pages of PAGE_SIZE of a sequence of records.
FullPages(records, n) ==
    [p \in 1..n |-> SubSeq(records, (p - 1) * PAGE_SIZE + 1, p * PAGE_SIZE)]

\* The text of the chunks the generator has taken.
TextTaken(pos) == Concat(SubSeq(chunks, 1, pos))

\* After every 'data' event the handler has passed to onPage every page
\* whose last record the text so far has closed, and holds the other closed
\* records in its current page.
C33_PushEmitsAtOnce ==
    ending # "end" =>
        LET closed == Closed(Text)
            full == Len(closed) \div PAGE_SIZE
        IN  /\ onPageCalls = FullPages(closed, full)
            /\ currentPage = SubSeq(closed, full * PAGE_SIZE + 1, Len(closed))

\* The generator suspended at a yield has taken the chunk that closed the
\* last record of the page it yields and none after it, and has left in its
\* buffer all that follows that record.
C33_PullYieldsAtOnce ==
    gen.pc = "yield" =>
        LET n == Len(gen.yielded) * PAGE_SIZE IN
        /\ gen.pos > 0
        /\ Len(Closed(TextTaken(gen.pos))) >= n
        /\ Len(Closed(TextTaken(gen.pos - 1))) < n
        /\ gen.buffer = AfterRecord(TextTaken(gen.pos), n)
        /\ gen.yielded = FullPages(Closed(TextTaken(gen.pos)), Len(gen.yielded))

\* The generator suspended at a yield takes a chunk only when its consumer
\* asks for the next page.
C33_PullWaitsForConsumer ==
    gen.pc = "yield" /\ gen' # gen => GenNext

NoCallRaised ==
    \A i \in (Len(calls) + 1)..Len(calls') : calls'[i].error # "raised"

\* C34 (as claimed, for readAchievementsPage): after a 'data' handler in
\* which onPage did not raise, the buffer holds no delimiter and the current
\* page holds fewer than PAGE_SIZE records.
C34_ChunkLeavesPartialPage ==
    [][(RaisingData /\ NoCallRaised) =>
          /\ IndexOf(buffer', Delimiter) = -1
          /\ Len(currentPage') < PAGE_SIZE]_allVars

\* ------------------------------------------------------------------ C36

\* C36 (as claimed): onDone and onError are never both called, and neither
\* is called more than once, whatever the events and whether or not onPage
\* and onDone raise.
C36_OutcomeReportedOnce == onDoneCalls + onErrorCalls <= 1

\* ------------------------------------------------------------------ C37

\* C37 (as claimed): a raise of onPage is followed at once by onError, no
\* page passed to onPage holds more than PAGE_SIZE records, and the pages
\* together hold no more records than the text has, so none twice.
C37_RaiseLeavesStateConsistent ==
    /\ \A i \in 1..Len(calls) :
          (calls[i].fn = "onPage" /\ calls[i].error = "raised") =>
              i < Len(calls) /\ calls[i + 1] = CaughtErrorCall
    /\ \A n \in 1..Len(onPageCalls) : Len(onPageCalls[n]) <= PAGE_SIZE
    /\ Len(Concat(onPageCalls)) <= Len(Records(Text))

====
